---------------------------- MODULE Spec2Model ----------------------------
(***************************************************************************)
(* SysMon: a periodic worker (application/app_threading.py, Application)   *)
(* that runs the work unit SysMon.run (sys_mon.py): capture the host's     *)
(* metrics, then compare them with fixed thresholds.                       *)
(*                                                                         *)
(* Threads are numbered: Main is the thread that calls start() and stop(), *)
(* 1..MaxThreads are the worker threads in the order start() creates them. *)
(* Percentages are modelled as integers; the thresholds are the integers   *)
(* 85, 80 and 90 and every comparison is the code's strict ">".            *)
(***************************************************************************)
EXTENDS Integers, Sequences, FiniteSets, TLC

(***************************************************************************)
(* Bounds of the model.                                                    *)
(***************************************************************************)
\* worker threads one Application may create in a run of the model
MaxThreads == 2
\* work-unit executions counted per thread (the counter saturates there)
MaxCycles == 2
\* partitions the provider lists in the capture specification
MaxParts == 3
\* processes the provider enumerates in the capture specification
MaxProcs == 6

(***************************************************************************)
(* Program constants.                                                      *)
(***************************************************************************)
CPU_USAGE_PERCENT == 85
MEMORY_USAGE_PERCENT == 80
DISK_USAGE_PERCENT == 90
\* processes[:5]
TopN == 5
\* the thread that calls start(), stop() and run()
Main == 0
\* self.worker_thread = None
NoThread == -1
\* p.info["memory_percent"] is None
NoReading == -1
\* self.metrics = None
NoMetrics == [none |-> TRUE]

VARIABLES
    shutdown_event,   \* Application.shutdown_event: is the Event set
    worker_thread,    \* Application.worker_thread: NoThread or a thread id
    pc,               \* position of Main and of every worker thread
    nthreads,         \* worker threads created so far
    metrics,          \* SysMon.metrics
    host,             \* the readings the provider returns / returned last
    top,              \* the processes logged as "Top 5" by the last capture
    alerts,           \* the ALERT warnings logged in the current cycle
    cycles,           \* per thread: work-unit executions begun (saturating)
    cause,            \* per thread: the call of run() that raised, or "none"
    exc,              \* per thread: the exception that escaped it, or "none"
    last_ret,         \* how Main's last start()/stop() call returned
    stop_since_start, \* Main called stop() after its last spawning start()
    prestop,          \* a stop() returned before the first start()
    sig,              \* signal_handler: "none", "handling" or "returned"
    phase,            \* the latest work-unit execution: "none" (there was
                      \* none), "running", "returned", "raised", or how the
                      \* wait after it ended: "waited" (timeout), "woken"
    snap              \* self.metrics: "none", "fresh" (stored in the current
                      \* cycle, not evaluated), "evaluated", or "stale"
                      \* (stored in a cycle that is over or that failed)

vars == <<shutdown_event, worker_thread, pc, nthreads, metrics, host, top,
          alerts, cycles, cause, exc, last_ret, stop_since_start, prestop,
          sig, phase, snap>>

lifecycle == <<shutdown_event, worker_thread, pc, nthreads, cycles, cause,
               exc, last_ret, stop_since_start, prestop, sig, phase>>
sysmon == <<metrics, host, top, alerts>>

Workers == 1..MaxThreads
Threads == {Main} \cup Workers

Min(a, b) == IF a < b THEN a ELSE b

\* threading.Thread.is_alive(): started and not yet finished
IsAlive(t) == t \in Workers /\ pc[t] \notin {"unborn", "dead"}

AliveWorkers == {t \in Workers : IsAlive(t)}


(***************************************************************************)
(* The provider's readings (psutil).  A host is what one capture reads:    *)
(* cpu and mem percentages, the partitions in discovery order (denied:     *)
(* disk_usage raises PermissionError for it) and the processes in          *)
(* enumeration order, each given by its memory_percent or NoReading.       *)
(***************************************************************************)
CpuVals == {84, 85, 86}
MemVals == {80, 81}
DiskVals == {90, 91}
Devices == {"/dev/sda1", "/dev/sda2"}
ProcVals == {NoReading, 5, 40, 90}

Partitions == [device : Devices, percent : DiskVals, denied : BOOLEAN]

SeqsUpTo(S, n) == UNION {[1..k -> S] : k \in 0..n}

\* the process list of the specification's ordering example
ExampleProcs == <<10, 40, 40, 5, 90, 1>>

\* the readings before the first capture (the variable is not read then)
IdleHost == [cpu |-> 84, mem |-> 80, parts |-> <<>>, procs |-> <<>>]

\* hosts of the lifecycle specification: at most one partition and process
LifeHosts ==
    [cpu : CpuVals, mem : MemVals,
     parts : {<<>>} \cup {<<q>> : q \in {x \in Partitions : x.device = "/dev/sda1"}},
     procs : {<<>>, <<40>>}]

\* hosts of the capture specification
CaptureHosts ==
    [cpu : CpuVals, mem : MemVals, parts : SeqsUpTo(Partitions, MaxParts),
     procs : {<<>>}]
    \cup [cpu : {84}, mem : {80}, parts : {<<>>},
          procs : SeqsUpTo(ProcVals, MaxProcs) \cup {ExampleProcs}]

(***************************************************************************)
(* disk_info: a Python dict, kept as the sequence of its entries in        *)
(* insertion order.  Assigning to a key that is present replaces the       *)
(* value in place; a new key is appended.                                  *)
(***************************************************************************)
DictKeys(d) == {d[i].device : i \in 1..Len(d)}

DictSet(d, e) ==
    IF e.device \in DictKeys(d)
    THEN [i \in 1..Len(d) |-> IF d[i].device = e.device THEN e ELSE d[i]]
    ELSE Append(d, e)

\* does the try body of the partition loop complete for partition q
DiskUsageOkSkipNothing(q) == TRUE
DiskUsageOk(q) == ~q.denied

\* the loop over psutil.disk_partitions(), from partition i on
RECURSIVE DiskLoop(_, _, _)
DiskLoop(parts, i, d) ==
    IF i > Len(parts) THEN d
    ELSE IF DiskUsageOk(parts[i])
         THEN DiskLoop(parts, i + 1,
                       DictSet(d, [device |-> parts[i].device,
                                   percent |-> parts[i].percent,
                                   mountpoint |-> i]))
         ELSE DiskLoop(parts, i + 1, d)

DiskInfo(parts) == DiskLoop(parts, 1, <<>>)

\* the dict assigned to self.metrics
BuildMetrics(h) ==
    [system_info |-> [cpu_usage |-> h.cpu],
     memory_usage |-> [percent |-> h.mem],
     disk_usage |-> DiskInfo(h.parts),
     net_usage |-> [bytes_sent |-> 0]]

(***************************************************************************)
(* Top processes: filter, sorted(key=memory_percent, reverse=True), [:5].  *)
(* Python's sort is stable, also with reverse=True: equal keys keep their  *)
(* order.  A process is identified by its place in the enumeration (pid).  *)
(***************************************************************************)
\* the list comprehension: processes with a reading, from process i on
RECURSIVE ProcInfos(_, _)
ProcInfos(procs, i) ==
    IF i > Len(procs) THEN <<>>
    ELSE IF procs[i] # NoReading
         THEN <<[pid |-> i, memory_percent |-> procs[i]]>> \o ProcInfos(procs, i + 1)
         ELSE ProcInfos(procs, i + 1)

\* does x, which came later in the input, go before y in the result
GoesBeforeTiesReversed(x, y) == x.memory_percent >= y.memory_percent
GoesBefore(x, y) == x.memory_percent > y.memory_percent

\* insert x, the next element of the input, into the sorted prefix s
RECURSIVE InsertSorted(_, _)
InsertSorted(s, x) ==
    IF s = <<>> THEN <<x>>
    ELSE IF GoesBefore(x, Head(s)) THEN <<x>> \o s
         ELSE <<Head(s)>> \o InsertSorted(Tail(s), x)

RECURSIVE SortedDesc(_, _)
SortedDesc(s, acc) ==
    IF s = <<>> THEN acc ELSE SortedDesc(Tail(s), InsertSorted(acc, Head(s)))

TopProcesses(procs) ==
    LET sorted == SortedDesc(ProcInfos(procs, 1), <<>>)
    IN  SubSeq(sorted, 1, Min(TopN, Len(sorted)))

(***************************************************************************)
(* check_thresholds.  The CPU warning's message reads                      *)
(* self.metrics['cpu_usage'], a key the metrics dict does not have         *)
(* (cpu_usage is under 'system_info'): building the message raises         *)
(* KeyError before anything is logged.                                     *)
(***************************************************************************)
Alert(kind, subject, observed) ==
    [kind |-> kind, subject |-> subject, observed |-> observed]

\* does the f-string of the CPU warning evaluate
CpuMessageOk(m) == "cpu_usage" \in DOMAIN m

\* the loop over self.metrics["disk_usage"].items(), from entry i on
RECURSIVE DiskAlerts(_, _)
DiskAlerts(d, i) ==
    IF i > Len(d) THEN <<>>
    ELSE IF d[i].percent > DISK_USAGE_PERCENT
         THEN <<Alert("DISK", d[i].device, d[i].percent)>> \o DiskAlerts(d, i + 1)
         ELSE DiskAlerts(d, i + 1)

MemoryAlerts(m) ==
    IF m.memory_usage.percent > MEMORY_USAGE_PERCENT
    THEN <<Alert("MEMORY", "", m.memory_usage.percent)>>
    ELSE <<>>

\* [raised: a KeyError escapes, alerts: the warnings logged by the call]
CheckThresholds(m) ==
    IF m = NoMetrics THEN [raised |-> FALSE, alerts |-> <<>>]
    ELSE IF m.system_info.cpu_usage > CPU_USAGE_PERCENT
         THEN IF CpuMessageOk(m)
              THEN [raised |-> FALSE,
                    alerts |-> <<Alert("CPU", "", m.system_info.cpu_usage)>>
                               \o MemoryAlerts(m) \o DiskAlerts(m.disk_usage, 1)]
              ELSE [raised |-> TRUE, alerts |-> <<>>]
         ELSE [raised |-> FALSE,
               alerts |-> MemoryAlerts(m) \o DiskAlerts(m.disk_usage, 1)]

(***************************************************************************)
(* Initial state: Application and SysMon as constructed, nothing started.  *)
(***************************************************************************)
InitLifecycle ==
    /\ shutdown_event = FALSE
    /\ worker_thread = NoThread
    /\ pc = [t \in Threads |-> IF t = Main THEN "idle" ELSE "unborn"]
    /\ nthreads = 0
    /\ cycles = [t \in Workers |-> 0]
    /\ cause = [t \in Threads |-> "none"]
    /\ exc = [t \in Threads |-> "none"]
    /\ last_ret = "none"
    /\ stop_since_start = FALSE
    /\ prestop = FALSE
    /\ sig = "none"
    /\ phase = "none"

InitSysMon ==
    /\ metrics = NoMetrics
    /\ top = <<>>
    /\ alerts = <<>>
    /\ snap = "none"

Init ==
    /\ InitLifecycle
    /\ InitSysMon
    /\ host = IdleHost

(***************************************************************************)
(* SysMon.run, executed by thread p: a worker thread (through _loop) or    *)
(* Main (a direct call).  An exception leaves run(): in a worker it lands  *)
(* in _loop's except clause, in Main it reaches the caller.                *)
(***************************************************************************)
ReturnedNoWait(p) == IF p = Main THEN "done" ELSE "test"
Returned(p) == IF p = Main THEN "done" ELSE "wait"
Raised(p) == IF p = Main THEN "raised" ELSE "except"

NoteCause(p, what) == cause' = [cause EXCEPT ![p] = what]

\* run() has no handler: an exception of monitor_system_metrics() leaves
\* run(), and check_thresholds() is not called
AfterMonitorRaiseContinues(p) == "check"
AfterMonitorRaise(p) == Raised(p)

\* monitor_system_metrics() completes on the readings h
Monitor(p, h) ==
    /\ pc[p] = "monitor"
    /\ host' = h
    /\ metrics' = BuildMetrics(h)
    /\ top' = TopProcesses(h.procs)
    /\ pc' = [pc EXCEPT ![p] = "check"]
    /\ UNCHANGED <<alerts, shutdown_event, worker_thread, nthreads, cycles,
                   cause, exc, last_ret, stop_since_start, prestop>>
    /\ snap' = "fresh"
    /\ UNCHANGED <<sig, phase>>

\* the provider fails before self.metrics is assigned (lines 105-113)
MonitorRaiseEarly(p) ==
    /\ pc[p] = "monitor"
    /\ pc' = [pc EXCEPT ![p] = AfterMonitorRaise(p)]
    /\ NoteCause(p, "monitor")
    /\ UNCHANGED <<sysmon, shutdown_event, worker_thread, nthreads, cycles,
                   exc, last_ret, stop_since_start, prestop>>
    /\ phase' = "raised"
    /\ UNCHANGED <<sig, snap>>

\* the provider fails after self.metrics is assigned (lines 152-170)
MonitorRaiseLate(p, h) ==
    /\ pc[p] = "monitor"
    /\ host' = h
    /\ metrics' = BuildMetrics(h)
    /\ pc' = [pc EXCEPT ![p] = AfterMonitorRaise(p)]
    /\ NoteCause(p, "monitor")
    /\ UNCHANGED <<top, alerts, shutdown_event, worker_thread, nthreads,
                   cycles, exc, last_ret, stop_since_start, prestop>>
    /\ phase' = "raised"
    /\ snap' = "stale"
    /\ UNCHANGED sig

\* check_thresholds()
Check(p) ==
    /\ pc[p] = "check"
    /\ LET r == CheckThresholds(metrics)
       IN  /\ alerts' = alerts \o r.alerts
           /\ IF r.raised
              THEN /\ pc' = [pc EXCEPT ![p] = Raised(p)]
                   /\ NoteCause(p, "check")
              ELSE /\ pc' = [pc EXCEPT ![p] = Returned(p)]
                   /\ UNCHANGED cause
    /\ UNCHANGED <<metrics, host, top, shutdown_event, worker_thread, nthreads,
                   cycles, exc, last_ret, stop_since_start, prestop>>
    /\ phase' = IF CheckThresholds(metrics).raised THEN "raised" ELSE "returned"
    /\ snap' = "evaluated"
    /\ UNCHANGED sig

(***************************************************************************)
(* Application.stop, executed by thread p: Main (an external call) or a    *)
(* worker (from _loop's except clause).                                    *)
(***************************************************************************)
\* if self.worker_thread and self.worker_thread.is_alive():
StopGuardAlways == TRUE
StopGuard == worker_thread # NoThread /\ IsAlive(worker_thread)

\* Thread.join() called by the thread itself raises RuntimeError
JoinSelfBlocks == FALSE
JoinSelfRaises == TRUE

\* Thread.join() returns once the thread has finished
JoinDoneAtOnce == TRUE
JoinDone == ~IsAlive(worker_thread)

\* stop() returns in thread p: Main is idle again, a worker is back in the
\* while loop of _loop
StopReturn(p, how) ==
    /\ pc' = [pc EXCEPT ![p] = IF p = Main THEN "idle" ELSE "test"]
    /\ last_ret' = IF p = Main THEN how ELSE last_ret
    /\ prestop' = (prestop \/ (p = Main /\ nthreads = 0))
    /\ sig' = IF p = Main /\ sig = "handling" THEN "returned" ELSE sig

StopCheck(p) ==
    /\ pc[p] = "stop_check"
    /\ IF StopGuard
       THEN /\ pc' = [pc EXCEPT ![p] = "stop_set"]
            /\ UNCHANGED <<last_ret, prestop, sig>>
       ELSE StopReturn(p, "stop_noop")
    /\ UNCHANGED <<sysmon, shutdown_event, worker_thread, nthreads, cycles,
                   cause, exc, stop_since_start>>
    /\ UNCHANGED <<phase, snap>>

\* self.shutdown_event.set()
StopSet(p) ==
    /\ pc[p] = "stop_set"
    /\ shutdown_event' = TRUE
    /\ pc' = [pc EXCEPT ![p] = "stop_join"]
    /\ UNCHANGED <<sysmon, worker_thread, nthreads, cycles, cause, exc,
                   last_ret, stop_since_start, prestop>>
    /\ UNCHANGED <<sig, phase, snap>>

\* self.worker_thread.join()
StopJoin(p) ==
    /\ pc[p] = "stop_join"
    /\ IF worker_thread = p
       THEN \* the RuntimeError leaves the except clause and _loop: the
            \* thread ends with an uncaught exception
            /\ JoinSelfRaises
            /\ pc' = [pc EXCEPT ![p] = "dead"]
            /\ exc' = [exc EXCEPT ![p] = "RuntimeError"]
            /\ UNCHANGED <<last_ret, prestop, sig>>
       ELSE /\ JoinDone
            /\ StopReturn(p, "stop_joined")
            /\ UNCHANGED exc
    /\ UNCHANGED <<sysmon, shutdown_event, worker_thread, nthreads, cycles,
                   cause, stop_since_start>>
    /\ UNCHANGED <<phase, snap>>

(***************************************************************************)
(* Application._loop, executed by worker thread t.                         *)
(***************************************************************************)
\* while not self.shutdown_event.is_set():
LoopCondForever == TRUE
LoopCondOnce == ~shutdown_event /\ \A t \in Workers : pc[t] = "test" => cycles[t] = 0
LoopCond == ~shutdown_event

LoopTest(t) ==
    /\ pc[t] = "test"
    /\ IF LoopCond
       THEN /\ pc' = [pc EXCEPT ![t] = "monitor"]
            /\ cycles' = [cycles EXCEPT ![t] = Min(@ + 1, MaxCycles)]
            /\ alerts' = <<>>
            /\ phase' = "running"
            /\ snap' = IF snap = "none" THEN "none" ELSE "stale"
       ELSE /\ pc' = [pc EXCEPT ![t] = "dead"]
            /\ UNCHANGED <<cycles, alerts, phase, snap>>
    /\ UNCHANGED <<metrics, host, top, shutdown_event, worker_thread, nthreads,
                   cause, exc, last_ret, stop_since_start, prestop>>
    /\ UNCHANGED sig

\* self.shutdown_event.wait(self.loop_interval) returns: the event is set
WaitWake(t) ==
    /\ pc[t] = "wait"
    /\ shutdown_event
    /\ pc' = [pc EXCEPT ![t] = "test"]
    /\ UNCHANGED <<sysmon, shutdown_event, worker_thread, nthreads, cycles,
                   cause, exc, last_ret, stop_since_start, prestop>>
    /\ phase' = "woken"
    /\ UNCHANGED <<sig, snap>>

\* self.shutdown_event.wait(self.loop_interval) returns: the interval is over
WaitTimeout(t) ==
    /\ pc[t] = "wait"
    /\ ~shutdown_event
    /\ pc' = [pc EXCEPT ![t] = "test"]
    /\ UNCHANGED <<sysmon, shutdown_event, worker_thread, nthreads, cycles,
                   cause, exc, last_ret, stop_since_start, prestop>>
    /\ phase' = "waited"
    /\ UNCHANGED <<sig, snap>>

\* except Exception as e: application_logger.exception(e); self.stop()
Except(t) ==
    /\ pc[t] = "except"
    /\ pc' = [pc EXCEPT ![t] = "stop_check"]
    /\ UNCHANGED <<sysmon, shutdown_event, worker_thread, nthreads, cycles,
                   cause, exc, last_ret, stop_since_start, prestop>>
    /\ UNCHANGED <<sig, phase, snap>>

Worker(t) ==
    \/ LoopTest(t)
    \/ \E h \in LifeHosts : Monitor(t, h)
    \/ MonitorRaiseEarly(t)
    \/ \E h \in LifeHosts : MonitorRaiseLate(t, h)
    \/ Check(t)
    \/ WaitWake(t)
    \/ WaitTimeout(t)
    \/ Except(t)
    \/ StopCheck(t)
    \/ StopSet(t)
    \/ StopJoin(t)

(***************************************************************************)
(* The caller thread: start() and stop() calls, one at a time.             *)
(***************************************************************************)
\* if self.worker_thread is None or not self.worker_thread.is_alive():
StartGuardAlways == TRUE
StartGuard == worker_thread = NoThread \/ ~IsAlive(worker_thread)

CallStart ==
    /\ pc[Main] = "idle"
    /\ nthreads < MaxThreads
    /\ pc' = [pc EXCEPT ![Main] = "start_check"]
    /\ UNCHANGED <<sysmon, shutdown_event, worker_thread, nthreads, cycles,
                   cause, exc, last_ret, stop_since_start, prestop>>
    /\ sig' = "none"
    /\ UNCHANGED <<phase, snap>>

\* start(): create and start the thread, or do nothing
StartCheck ==
    /\ pc[Main] = "start_check"
    /\ IF StartGuard
       THEN /\ nthreads' = nthreads + 1
            /\ worker_thread' = nthreads + 1
            /\ pc' = [pc EXCEPT ![Main] = "idle", ![nthreads + 1] = "test"]
            /\ last_ret' = "start_spawned"
            /\ stop_since_start' = FALSE
       ELSE /\ pc' = [pc EXCEPT ![Main] = "idle"]
            /\ last_ret' = "start_noop"
            /\ UNCHANGED <<nthreads, worker_thread, stop_since_start>>
    /\ UNCHANGED <<sysmon, shutdown_event, cycles, cause, exc, prestop>>
    /\ UNCHANGED <<sig, phase, snap>>

CallStop ==
    /\ pc[Main] = "idle"
    /\ pc' = [pc EXCEPT ![Main] = "stop_check"]
    /\ stop_since_start' = TRUE
    /\ UNCHANGED <<sysmon, shutdown_event, worker_thread, nthreads, cycles,
                   cause, exc, last_ret, prestop>>
    /\ sig' = "none"
    /\ UNCHANGED <<phase, snap>>

\* signal_handler(frame, sig), run by Main on SIGINT: print, self.stop()
CallSignal ==
    /\ pc[Main] = "idle"
    /\ pc' = [pc EXCEPT ![Main] = "stop_check"]
    /\ sig' = "handling"
    /\ stop_since_start' = TRUE
    /\ UNCHANGED <<sysmon, shutdown_event, worker_thread, nthreads, cycles,
                   cause, exc, last_ret, prestop, phase, snap>>

MainStep ==
    \/ StartCheck
    \/ StopCheck(Main)
    \/ StopSet(Main)
    \/ StopJoin(Main)

Next ==
    \/ CallStart
    \/ CallStop
    \/ CallSignal
    \/ MainStep
    \/ \E t \in Workers : Worker(t)

Spec == Init /\ [][Next]_vars

\* Scheduling: a thread that can take a step eventually takes it (every
\* work-unit execution and every timed wait ends); calls are not forced.
FairSpec ==
    /\ Spec
    /\ WF_vars(MainStep)
    /\ \A t \in Workers : WF_vars(Worker(t))

(***************************************************************************)
(* The capture specification: Main calls SysMon.run() once, directly, on   *)
(* a host drawn from CaptureHosts.                                         *)
(***************************************************************************)
InitCapture ==
    /\ shutdown_event = FALSE
    /\ worker_thread = NoThread
    /\ pc = [t \in Threads |-> IF t = Main THEN "monitor" ELSE "unborn"]
    /\ nthreads = 0
    /\ cycles = [t \in Workers |-> 0]
    /\ cause = [t \in Threads |-> "none"]
    /\ exc = [t \in Threads |-> "none"]
    /\ last_ret = "none"
    /\ stop_since_start = FALSE
    /\ prestop = FALSE
    /\ sig = "none"
    /\ phase = "none"
    /\ InitSysMon
    /\ host \in CaptureHosts

NextCapture ==
    \/ Monitor(Main, host)
    \/ MonitorRaiseEarly(Main)
    \/ MonitorRaiseLate(Main, host)
    \/ Check(Main)

CaptureSpec == InitCapture /\ [][NextCapture]_vars

(***************************************************************************)
(* Properties of the worker lifecycle.                                     *)
(***************************************************************************)
StopKinds == {"stop_joined", "stop_noop"}
InWorkUnit(t) == pc[t] \in {"monitor", "check"}
OnFailurePath(t) == pc[t] \in {"except", "stop_check", "stop_set", "stop_join", "dead"}

\* C1: whatever start() and stop() calls Main makes, at most one worker
\* thread is alive, so no two threads are ever in a cycle; a start() that
\* finds the worker alive creates no thread.
AtMostOneWorker ==
    /\ [](Cardinality(AliveWorkers) <= 1)
    /\ [][(pc[Main] = "start_check" /\ AliveWorkers # {})
            => /\ nthreads' = nthreads
               /\ worker_thread' = worker_thread
               /\ \A t \in Workers : pc[t] = "unborn" => pc'[t] = "unborn"]_vars

\* C1 witness: a start() found the worker alive and returned, one worker lives
StartWhileAlive ==
    /\ last_ret = "start_noop"
    /\ Cardinality(AliveWorkers) = 1
    /\ nthreads = 1

\* C2: when Main's last call was a stop() that has returned, no worker
\* thread is alive, so no step of the work unit runs until the next start().
StopReturnedQuiet ==
    last_ret \in StopKinds => /\ AliveWorkers = {}
                              /\ \A t \in Workers : ~InWorkUnit(t)

\* C2 witness: stop() joined a worker that had run cycles and had not failed
StoppedRunningWorker ==
    /\ last_ret = "stop_joined"
    /\ \E t \in Workers : /\ t = worker_thread
                          /\ pc[t] = "dead"
                          /\ cycles[t] >= 1
                          /\ cause[t] = "none"

\* C3 (the claim as stated): the worker created by a start() that follows
\* an earlier run does not end, without a stop() call since that start(),
\* before it has executed the work unit once.
RestartRunsWorkUnit ==
    \A t \in Workers :
        (t >= 2 /\ t = worker_thread /\ pc[t] = "dead" /\ ~stop_since_start)
            => cycles[t] >= 1

\* C4: once the work unit has raised in a worker, that worker begins no
\* further cycle and, with no stop() call needed, ends; only start() creates
\* a thread; no exception reaches Main.
SelfStopOnFailure ==
    /\ [](\A t \in Workers : cause[t] # "none" => OnFailurePath(t))
    /\ \A t \in Workers : (cause[t] # "none") ~> (pc[t] = "dead")
    /\ [][nthreads' # nthreads => pc[Main] = "start_check"]_vars
    /\ [](exc[Main] = "none" /\ pc[Main] # "raised")

\* C4 witness: the work unit raised in the second cycle of the first worker,
\* stop() was never called and the worker has ended
FailedOnSecondCycle ==
    /\ nthreads = 1
    /\ cause[1] # "none"
    /\ cycles[1] = 2
    /\ pc[1] = "dead"
    /\ ~stop_since_start
    /\ ~prestop

\* C5 (the claim as stated): check_thresholds never raises, so no thread
\* reaches the failure path from threshold evaluation.
BreachIsNoFailure == \A t \in Threads : cause[t] # "check"

\* C6: a stop() that finds no worker alive returns in its next step and
\* changes neither the event, nor the worker reference, nor any thread; and
\* after a stop() before the first start(), the first worker does not end
\* (without a later stop() call) before it has run a cycle.
StopWhenIdleIsNoop ==
    /\ [][(pc[Main] = "stop_check" /\ AliveWorkers = {})
            => /\ pc'[Main] = "idle"
               /\ last_ret' = "stop_noop"
               /\ UNCHANGED <<shutdown_event, worker_thread, nthreads>>
               /\ \A t \in Workers : pc'[t] = pc[t]]_vars
    /\ [](nthreads = 0 => ~shutdown_event)
    /\ []((prestop /\ nthreads = 1 /\ pc[1] = "dead" /\ ~stop_since_start)
            => cycles[1] >= 1)

\* C6 witness: stop() returned before the first start(), and the worker
\* that start() created has run a cycle
StopBeforeFirstStart ==
    /\ prestop
    /\ nthreads = 1
    /\ cycles[1] >= 1
    /\ ~stop_since_start

\* C8: under fair scheduling every stop() call of Main returns, with no
\* worker alive; while a work unit is in flight the join does not return.
StopEventuallyReturns ==
    /\ (pc[Main] \in {"stop_check", "stop_set", "stop_join"})
         ~> (pc[Main] = "idle" /\ last_ret \in StopKinds /\ AliveWorkers = {})
    /\ [][(pc[Main] = "stop_join" /\ \E t \in Workers : InWorkUnit(t))
            => pc'[Main] = "stop_join"]_vars

\* C8 witness: Main waits in join() while the work unit is executing
JoinDuringWorkUnit ==
    /\ pc[Main] = "stop_join"
    /\ \E t \in Workers : InWorkUnit(t) /\ t = worker_thread

(***************************************************************************)
(* Properties of one capture and evaluation (checked under CaptureSpec).   *)
(***************************************************************************)
\* monitor_system_metrics() has returned in Main's call of run()
Captured == pc[Main] \in {"check", "done"} \/ (pc[Main] = "raised" /\ cause[Main] = "check")
\* check_thresholds() has ended in Main's call of run(), by return or raise
Evaluated == pc[Main] = "done" \/ (pc[Main] = "raised" /\ cause[Main] = "check")

HasAlert(kind) == \E i \in 1..Len(alerts) : alerts[i].kind = kind

\* C7 (the claim as stated): an evaluation logs a CPU alert exactly when the
\* snapshot's CPU usage is strictly greater than CPU_USAGE_PERCENT.
CpuAlertIffAbove ==
    Evaluated => (HasAlert("CPU") <=> host.cpu > CPU_USAGE_PERCENT)

\* the partitions disk_usage() answers for, and those among them on device v
Queryable(parts) == {i \in 1..Len(parts) : ~parts[i].denied}
OnDevice(parts, v) == {i \in Queryable(parts) : parts[i].device = v}
SetMin(S) == CHOOSE x \in S : \A y \in S : x <= y
SetMax(S) == CHOOSE x \in S : \A y \in S : x >= y
SomeDenied(parts) == \E i \in 1..Len(parts) : parts[i].denied

\* d holds one entry per queryable partition, in discovery order
EntryPerQueryable(d, parts) ==
    /\ Len(d) = Cardinality(Queryable(parts))
    /\ \A j \in 1..Len(d) :
          /\ d[j].mountpoint \in Queryable(parts)
          /\ d[j].device = parts[d[j].mountpoint].device
          /\ d[j].percent = parts[d[j].mountpoint].percent
    /\ \A j, k \in 1..Len(d) : j < k => d[j].mountpoint < d[k].mountpoint

\* C9 (the claim as stated): with some partitions denied, the capture
\* returns and the disk map holds exactly the entries of the partitions
\* that could be queried, in discovery order.
DeniedPartitionsOmitted ==
    (Captured /\ SomeDenied(host.parts))
        => EntryPerQueryable(metrics.disk_usage, host.parts)

\* C9 (amended): with or without denied partitions, the disk map of a
\* capture that returned holds one entry per distinct device among the partitions that
\* could be queried: the data of the last such partition of the device, the
\* devices in the order of their first such partition.  With all devices
\* distinct that is one entry per queryable partition, in discovery order.
DeniedPartitionsOmittedPerDevice ==
    /\ Captured =>
         LET d == metrics.disk_usage
             parts == host.parts
         IN  /\ DictKeys(d) = {parts[i].device : i \in Queryable(parts)}
             /\ Len(d) = Cardinality(DictKeys(d))
             /\ \A j \in 1..Len(d) :
                   /\ d[j].mountpoint = SetMax(OnDevice(parts, d[j].device))
                   /\ d[j].percent = parts[d[j].mountpoint].percent
             /\ \A j, k \in 1..Len(d) :
                   j < k => SetMin(OnDevice(parts, d[j].device))
                              < SetMin(OnDevice(parts, d[k].device))
             /\ (\A i, k \in Queryable(parts) :
                    parts[i].device = parts[k].device => i = k)
                  => EntryPerQueryable(d, parts)

\* C9 witness: three partitions, the second one denied, the other two on
\* different devices: the capture returned two entries
OneOfThreeDenied ==
    /\ pc[Main] = "done"
    /\ Len(host.parts) = 3
    /\ Queryable(host.parts) = {1, 3}
    /\ host.parts[1].device # host.parts[3].device
    /\ Len(metrics.disk_usage) = 2

\* C10: the processes reported are processes with a reading, each once,
\* the first 5 (or all, if fewer) of the order: memory_percent descending,
\* equal readings in enumeration order.
TopProcessesSelected ==
    Captured =>
        LET P == host.procs
            WithReading == {i \in 1..Len(P) : P[i] # NoReading}
            Before(i, k) == P[i] > P[k] \/ (P[i] = P[k] /\ i < k)
            Chosen == {top[j].pid : j \in 1..Len(top)}
        IN  /\ Len(top) = Min(TopN, Cardinality(WithReading))
            /\ \A j \in 1..Len(top) :
                  /\ top[j].pid \in WithReading
                  /\ top[j].memory_percent = P[top[j].pid]
            /\ \A j, k \in 1..Len(top) : j < k => Before(top[j].pid, top[k].pid)
            /\ \A i \in WithReading \ Chosen : \A k \in Chosen : Before(k, i)
            /\ P = ExampleProcs
                 => [j \in 1..Len(top) |-> top[j].memory_percent] = <<90, 40, 40, 10, 5>>

\* C10 witness: the example's six processes were captured: five are
\* reported, the two 40s (processes 2 and 3) in enumeration order
ExampleTopFive ==
    /\ pc[Main] = "done"
    /\ host.procs = ExampleProcs
    /\ [j \in 1..Len(top) |-> top[j].pid] = <<5, 2, 3, 1, 4>>

(***************************************************************************)
(* Properties of shutdown, of the failure path and of the cycle order.     *)
(***************************************************************************)
\* thread t leaves position at in this step
Leaves(t, at) == pc[t] = at /\ pc'[t] # at
\* thread t begins an execution of the work unit: it passes the loop test
BeginsCycle(t) == pc[t] = "test" /\ pc'[t] = "monitor"
InStop(p) == pc[p] \in {"stop_check", "stop_set", "stop_join"}

\* C11: when signal_handler has returned no worker thread is alive, and
\* until Main's next call no thread is created and no cycle begins; the
\* handler itself creates no thread and returns Main to where it was.
SignalHandlerStops ==
    /\ [](sig = "returned" => (AliveWorkers = {} /\ pc[Main] = "idle"))
    /\ [][sig = "handling" \/ sig = "returned"
            => /\ nthreads' = nthreads
               /\ worker_thread' = worker_thread]_vars
    /\ [][(sig = "returned" /\ sig' = "returned")
            => /\ cycles' = cycles
               /\ \A t \in Workers : ~BeginsCycle(t) /\ pc'[t] = pc[t]]_vars

\* C11 witness: SIGINT arrived while the worker was cycling; the handler
\* has joined it and returned
SignalStoppedWorker ==
    /\ sig = "returned"
    /\ last_ret = "stop_joined"
    /\ nthreads = 1
    /\ cycles[1] >= 1
    /\ cause[1] = "none"

\* C12 (the claim as stated): no worker thread is ever at a join() of
\* itself; only a thread other than the worker joins the worker.
WorkerNeverJoinsItself ==
    \A t \in Workers : ~(pc[t] = "stop_join" /\ worker_thread = t)

\* C13: the signal is looked at in the loop test only.  With the signal
\* raised no worker begins a cycle: a worker at the loop test ends, a
\* worker in the wait goes to the loop test, and an execution under way
\* (from the passed loop test on) is left to end, by return or by raise.
\* Under fair scheduling every live worker ends once the signal is raised.
ShutdownAtLoopTest ==
    /\ [][shutdown_event
            => \A t \in Workers :
                  /\ ~BeginsCycle(t)
                  /\ Leaves(t, "test") => pc'[t] = "dead"
                  /\ Leaves(t, "wait") => pc'[t] = "test"
                  /\ Leaves(t, "monitor") => pc'[t] \in {"check", "except"}
                  /\ Leaves(t, "check") => pc'[t] \in {"wait", "except"}]_vars
    /\ [][\A t \in Workers :
            (pc'[t] = "monitor" /\ pc[t] # "monitor") => ~shutdown_event]_vars
    /\ \A t \in Workers : (shutdown_event /\ IsAlive(t)) ~> (pc[t] = "dead")

\* C13 witness: stop() raised the signal while the worker was in its wait
\* after a cycle; the worker woke up and ended without another cycle
WokenFromWait ==
    /\ last_ret = "stop_joined"
    /\ phase = "woken"
    /\ nthreads = 1
    /\ pc[1] = "dead"
    /\ cycles[1] = 1
    /\ cause[1] = "none"

\* C14: no two threads are in the work unit at once, and an execution
\* begins only when there was none before or when the one before has
\* returned and the wait after it has ended by timeout.
CyclesSeparatedByWait ==
    /\ [](Cardinality({t \in Workers : InWorkUnit(t)}) <= 1)
    /\ [](phase = "running" <=> \E t \in Workers : InWorkUnit(t))
    /\ [][\A t \in Workers : BeginsCycle(t) => phase \in {"none", "waited"}]_vars
    /\ [][(phase = "returned" /\ phase' # "returned")
            => phase' \in {"waited", "woken"}]_vars

\* C14 witness: the second execution of a worker is under way, after a
\* wait that ended by timeout
SecondCycleAfterWait ==
    /\ nthreads = 1
    /\ cycles[1] = 2
    /\ pc[1] = "check"
    /\ phase = "running"

\* C15: a worker thread ends only with the shutdown signal raised; the
\* signal is raised only by a stop() of Main (called directly or by
\* signal_handler) or by the stop() of a worker whose work unit raised;
\* with the signal not raised a worker that returns from the work unit
\* waits, and (under fair scheduling) begins the next cycle.
WorkerStopsOnlyOnStopOrFailure ==
    /\ [](\A t \in Workers : pc[t] = "dead" => shutdown_event)
    /\ [][(shutdown_event' /\ ~shutdown_event)
            => \/ (pc[Main] = "stop_set" /\ stop_since_start)
               \/ \E t \in Workers : pc[t] = "stop_set" /\ cause[t] # "none"]_vars
    /\ [](\A t \in Workers : OnFailurePath(t) /\ pc[t] # "dead" => cause[t] # "none")
    /\ \A t \in Workers :
          (pc[t] = "wait") ~> (pc[t] = "monitor" \/ shutdown_event)

\* C15 witness: the worker is in its second cycle, nothing has failed and
\* the signal is not raised
StillCycling ==
    /\ nthreads = 1
    /\ cycles[1] = 2
    /\ pc[1] = "monitor"
    /\ ~shutdown_event
    /\ \A t \in Threads : cause[t] = "none"

\* the disk entries above the threshold
DisksAbove(d) == {j \in 1..Len(d) : d[j].percent > DISK_USAGE_PERCENT}

\* C16 (the claim as stated): an evaluation logs the CPU alert (if any),
\* then the memory alert, logged iff memory percent > MEMORY_USAGE_PERCENT,
\* then one alert per disk entry above DISK_USAGE_PERCENT, in the order
\* of the entries.
AlertsInOrder ==
    Evaluated =>
        LET d == metrics.disk_usage
            disk == {j \in 1..Len(alerts) : alerts[j].kind = "DISK"}
        IN  /\ HasAlert("MEMORY") <=> metrics.memory_usage.percent > MEMORY_USAGE_PERCENT
            /\ Cardinality(disk) = Cardinality(DisksAbove(d))
            /\ \A j \in disk :
                  \E i \in DisksAbove(d) :
                      /\ alerts[j].subject = d[i].device
                      /\ Cardinality({k \in disk : k <= j})
                           = Cardinality({k \in DisksAbove(d) : k <= i})
            /\ \A j, k \in 1..Len(alerts) :
                  (j < k) => /\ alerts[k].kind # "CPU"
                             /\ alerts[k].kind = "MEMORY" => alerts[j].kind = "CPU"

\* C17: under fair scheduling, when Main is in stop() while a worker whose
\* work unit raised is still alive, Main's stop() returns and no worker
\* is alive then; the worker ends.
StopPathsDoNotDeadlock ==
    /\ (InStop(Main) /\ \E t \in Workers : IsAlive(t) /\ cause[t] # "none")
         ~> (pc[Main] = "idle" /\ AliveWorkers = {})
    /\ \A t \in Workers :
          (InStop(Main) /\ IsAlive(t) /\ cause[t] # "none") ~> (pc[t] = "dead")

\* C17 witness: Main and the failed worker are both at the join() of stop()
BothInJoin ==
    /\ pc[Main] = "stop_join"
    /\ \E t \in Workers : /\ worker_thread = t
                          /\ pc[t] = "stop_join"
                          /\ cause[t] # "none"

\* C18: check_thresholds runs only on a snapshot stored earlier in the same
\* cycle and not yet evaluated; a cycle whose capture raised logs no alert
\* and, in a worker, is the thread's last.
EvaluatesFreshSnapshot ==
    /\ [](\A p \in Threads : pc[p] = "check" => snap = "fresh")
    /\ [][alerts' # alerts /\ alerts' # <<>> => snap = "fresh"]_vars
    /\ [](\A t \in Workers :
            (t = worker_thread /\ cause[t] = "monitor")
                => (alerts = <<>> /\ OnFailurePath(t) /\ snap # "evaluated"))

\* C18 witness: the second cycle's capture raised after the first cycle's
\* snapshot had been evaluated with an alert: nothing is logged again
CaptureRaisedAfterAlert ==
    /\ nthreads = 1
    /\ cycles[1] = 2
    /\ cause[1] = "monitor"
    /\ snap = "stale"
    /\ metrics # NoMetrics
    /\ metrics.memory_usage.percent > MEMORY_USAGE_PERCENT
    /\ alerts = <<>>

=============================================================================
